---- MODULE Spec2Model ----
(***************************************************************************)
(* Email-Assistant: the message processing pipeline of src/server.js       *)
(* (manual fetch handler and scheduled cron run) over the SQLite store of  *)
(* src/database/init.js, the Gmail collaborator and the AI service.        *)
(*                                                                         *)
(* Node runs one handler at a time between awaits, so every await of a     *)
(* handler is one atomic step here, and two handlers interleave at their   *)
(* awaits.  The store executes each statement atomically.                  *)
(***************************************************************************)
EXTENDS Integers, Sequences, FiniteSets, TLC

\* ---------------------------------------------------------------- bounds
\* longest list fetchSupportEmails hands to one run
MaxBatch == 2

\* Gmail message ids the mailbox can deliver
MsgIds == {"m1", "m2"}

Null == "null"

\* the falsy emailId: insertEmail resolved null, or no insert yet (row ids start at 1)
NoId == 0

\* the two triggers of a batch run: POST /api/emails/fetch and the cron job
Runs == {"manual", "sched"}

\* analysis.priority as JSON.parse hands it over: an enumerated value, or
\* no such field at all (Null)
AnalysisPriorities == {"urgent", "normal", "low", Null}

\* every message list of at most n ids (repetitions allowed)
RECURSIVE SeqsUpTo(_)
SeqsUpTo(n) ==
    IF n = 0 THEN {<<>>}
    ELSE LET shorter == SeqsUpTo(n - 1)
         IN  shorter \cup {Append(s, m) : s \in {t \in shorter : Len(t) = n - 1}, m \in MsgIds}

Batches == SeqsUpTo(MaxBatch)

\* ----------------------------------------------------------------- state
VARIABLES
    emails,     \* table emails: row id = index; [messageId, priority, status, summary, by]
                \*   (by: the run whose insert created the row; history only)
    responses,  \* table responses in insertion order: [emailId, isSent]
    autoSend,   \* process.env.AUTO_SEND_RESPONSES === 'true'
    aiState,    \* "nokey": OPENAI_API_KEY unset; "uninit": key set, aiService.init failed;
                \* "ready": aiService.isInitialized
    run,        \* per trigger: the handler's locals and its position, and its history:
                \*   attempted: insertEmail calls made; thrown: exceptions that reached
                \*   the loop's outer catch; faults: failures the store or the mail
                \*   transport answered this run with
    mailLog,    \* history: per email row, the outcomes ("sent" or "failed") of the calls
                \*   auto-dispatch made to gmailService.sendResponse for it
    mail,       \* the message the AI service and the single-record endpoints work on:
                \*   [subject, body, sender] (the batch runs carry no text)
    reply,      \* what the last AI service call or single-record request answered
    knowledgeBase,  \* aiService.knowledgeBase: per category its entries [key, info]
                    \*   in the order Object.entries gives them
    gmail       \* the Gmail side: unread, the ids the mailbox lists under is:unread;
                \*   call, per trigger the locals of its fetchSupportEmails call
                \*   (messages still to get, emails pushed) and its history (tried:
                \*   ids markAsRead was called for; failed: ids it failed for)

vars == <<emails, responses, autoSend, aiState, run, mailLog, mail, reply, knowledgeBase, gmail>>

\* the variables the batch runs leave alone
service == <<mail, reply, knowledgeBase, gmail>>

\* the knowledge base the constructor of AIService sets
BuiltInKnowledge ==
    [products |->
        << [key |-> "email-assistant",
            info |-> "AI-powered email management system that automatically processes support emails, analyzes sentiment, and generates contextual responses."],
           [key |-> "support",
            info |-> "Our support team is available Monday-Friday 9AM-6PM EST. For urgent issues, please mark your email as \"URGENT\" in the subject line."] >>,
     policies |->
        << [key |-> "refund",
            info |-> "We offer full refunds within 30 days of purchase. Please provide your order number and reason for refund."],
           [key |-> "privacy",
            info |-> "We take privacy seriously and never share customer data with third parties."],
           [key |-> "response_time",
            info |-> "We aim to respond to all support emails within 24 hours during business days."] >>,
     commonIssues |->
        << [key |-> "login",
            info |-> "For login issues, please try resetting your password first. If that doesn't work, check if your account is active."],
           [key |-> "billing",
            info |-> "For billing questions, please provide your account email and we'll review your account."],
           [key |-> "technical",
            info |-> "For technical issues, please include browser version, operating system, and steps to reproduce the problem."] >>]

\* no fetchSupportEmails call under way
NoCall == [messages |-> <<>>, emails |-> <<>>, tried |-> {}, failed |-> {}]

\* the mailbox with every message unread, before any fetch
Mailbox == [unread |-> MsgIds, call |-> [p \in Runs |-> NoCall]]

IdleRun ==
    [pc |-> "idle", batch |-> <<>>, i |-> 1, emailId |-> NoId, analysis |-> Null,
     processedCount |-> 0, errorCount |-> 0, successCount |-> 0,
     attempted |-> 0, thrown |-> 0, faults |-> 0]

Init ==
    /\ emails = <<>>
    /\ responses = <<>>
    /\ autoSend \in BOOLEAN
    /\ aiState \in {"nokey", "uninit", "ready"}
    /\ run = [p \in Runs |-> IdleRun]
    /\ mailLog = <<>>
    /\ mail = [subject |-> "", body |-> "", sender |-> ""]
    /\ reply = [op |-> "none"]
    /\ knowledgeBase = BuiltInKnowledge
    /\ gmail = Mailbox

\* ------------------------------------------------------ environment tests
isOpenAIConfigured == aiState # "nokey"

\* AIService.isConfigured
isConfigured == aiState = "ready"

\* ------------------------------------------------------------- the store
\* (mutant) a table whose messageId column carries no UNIQUE constraint
RunInsertUnconstrained(es, messageId, fails) ==
    IF fails THEN "SQLITE_IOERR" ELSE "SQLITE_OK"

\* the result code of the INSERT: messageId is UNIQUE, NULLs are distinct.
\* fails: the store answers this statement with an I/O error.  The driver is
\* taken to report a UNIQUE violation under its extended result code, the one
\* insertEmail tests for.
RunInsert(es, messageId, fails) ==
    IF fails THEN "SQLITE_IOERR"
    ELSE IF messageId # Null /\ \E k \in 1..Len(es) : es[k].messageId = messageId
         THEN "SQLITE_CONSTRAINT_UNIQUE"
         ELSE "SQLITE_OK"

\* (mutant) the test names another result code, so a duplicate rejects
ResolvesNullOnPrimaryCode(code) == code = "SQLITE_CONSTRAINT"

\* code SQLITE_CONSTRAINT_UNIQUE resolves null; every other error rejects
ResolvesNull(code) == code = "SQLITE_CONSTRAINT_UNIQUE"

\* Database.insertEmail: [id, rejected, emails]; by is recorded for history only
insertEmail(es, messageId, fails, by) ==
    LET code == RunInsert(es, messageId, fails)
    IN  IF code = "SQLITE_OK"
        THEN [id |-> Len(es) + 1, rejected |-> FALSE,
              emails |-> Append(es, [messageId |-> messageId, priority |-> "normal",
                                     status |-> "pending", summary |-> Null, by |-> by])]
        ELSE IF ResolvesNull(code)
             THEN [id |-> NoId, rejected |-> FALSE, emails |-> es]
             ELSE [id |-> NoId, rejected |-> TRUE, emails |-> es]

\* Database.updateEmailAnalysis: UPDATE ... WHERE id = ?
updateEmailAnalysis(es, id, priority, summary) ==
    [k \in 1..Len(es) |->
        IF k = id
        THEN [es[k] EXCEPT !.priority = IF priority = Null THEN "normal" ELSE priority,
                           !.summary = summary]
        ELSE es[k]]

\* Database.insertResponse
insertResponse(rs, id) == Append(rs, [emailId |-> id, isSent |-> FALSE])

\* (mutant) UPDATE ... WHERE id = (the latest draft of the record)
markLatestResponseAsSent(rs, id) ==
    [k \in 1..Len(rs) |->
        IF rs[k].emailId = id /\ (\A j \in (k + 1)..Len(rs) : rs[j].emailId # id)
        THEN [rs[k] EXCEPT !.isSent = TRUE]
        ELSE rs[k]]

\* Database.markResponseAsSent: UPDATE responses SET isSent = 1 WHERE emailId = ? AND isSent = 0
markResponseAsSent(rs, id) ==
    [k \in 1..Len(rs) |->
        IF rs[k].emailId = id /\ ~rs[k].isSent THEN [rs[k] EXCEPT !.isSent = TRUE]
        ELSE rs[k]]

\* Database.updateEmailStatus: UPDATE emails SET status = ? WHERE id = ?
updateEmailStatus(es, id, status) ==
    [k \in 1..Len(es) |-> IF k = id THEN [es[k] EXCEPT !.status = status] ELSE es[k]]

\* Database.updateEmailSummary: UPDATE emails SET summary = ? WHERE id = ?
updateEmailSummary(es, id, summary) ==
    [k \in 1..Len(es) |-> IF k = id THEN [es[k] EXCEPT !.summary = summary] ELSE es[k]]

\* Database.getEmailById: does the SELECT find a row
Found1(es, id) == id \in 1..Len(es)

\* ------------------------------------------------------ the loop's bookkeeping
\* the run's history of injected failures (each one ends its item)
Fault(r, fails) ==
    IF fails THEN [r EXCEPT !.faults = r.faults + 1] ELSE r

\* on to the next message of the list, or out of the loop
Advance(r) ==
    [r EXCEPT !.i = r.i + 1, !.emailId = NoId, !.analysis = Null,
              !.pc = IF r.i + 1 > Len(r.batch) THEN "done" ELSE "insert"]

\* the end of the `if (emailId)` block: the item counts as processed
Saved(p, r) ==
    Advance(IF p = "manual"
            THEN [r EXCEPT !.processedCount = r.processedCount + 1]
            ELSE [r EXCEPT !.successCount = r.successCount + 1])

\* (mutant) the duplicate is handled like a stored message: the run takes
\* the stored record's id and enters the stages
SkippedReprocessed(p, r) ==
    [r EXCEPT !.pc = "ai",
              !.emailId = CHOOSE k \in 1..Len(emails) : emails[k].messageId = r.batch[r.i]]

\* (mutant) the skipped duplicate is counted like a stored message
SkippedButCounted(p, r) == Saved(p, r)

\* insertEmail returned null: 'Email already exists, skipped'
Skipped(p, r) == Advance(r)

\* (mutant) the failure leaves the loop instead of moving to the next message
ErroredAborts(p, r) ==
    [r EXCEPT !.thrown = r.thrown + 1, !.pc = "done", !.emailId = NoId, !.analysis = Null]

\* the loop's outer catch: the manual run counts, the scheduled run only logs
Errored(p, r) ==
    Advance(IF p = "manual"
            THEN [r EXCEPT !.errorCount = r.errorCount + 1, !.thrown = r.thrown + 1]
            ELSE [r EXCEPT !.thrown = r.thrown + 1])

\* the inner catch (aiError): logged, the item still counts as processed
AiFailed(p, r) == Saved(p, r)

\* (mutant) the priority is not tested
AutoDispatchAnyPriority(p, r) == p = "sched" /\ autoSend

\* (mutant) the flag is not tested
AutoDispatchIgnoringFlag(p, r) == p = "sched" /\ r.analysis # "urgent"

\* the auto-dispatch test of the scheduled run; the manual run has none
AutoDispatch(p, r) == p = "sched" /\ autoSend /\ r.analysis # "urgent"

\* (mutant) the failed send is tried again
SendFailedRetries(p, r) == [r EXCEPT !.pc = "send"]

\* the catch around the send (sendError): logged, on to the next message
SendFailed(p, r) == Saved(p, r)

\* ------------------------------------------------------------ the actions
\* the trigger fires, Gmail is configured and fetchSupportEmails returns msgs
\* (an empty list ends the handler at once)
StartBatch(p, msgs) ==
    /\ run[p].pc = "idle"
    /\ run' = [run EXCEPT ![p] = [IdleRun EXCEPT !.batch = msgs,
                                   !.pc = IF Len(msgs) = 0 THEN "done" ELSE "insert"]]
    /\ UNCHANGED <<emails, responses, autoSend, aiState, mailLog, service>>

\* what Date.now() and Math.random() contribute to a synthetic identifier
Salts == {"1", "2"}

\* emailData.messageId for a message whose `email.messageId || email.id` is m:
\* the manual handler falls back on a template, the scheduled run has no fallback
\* (and insertEmail binds `emailData.messageId || null`)
emailDataMessageId(p, m, salt) ==
    IF m # Null THEN m
    ELSE IF p = "manual" THEN "manual_" \o salt
    ELSE Null

\* the template is evaluated only for an id-less message of the manual handler
Salted(p, m, salt) == (m = Null /\ p = "manual") \/ salt = "1"

\* (mutant) the loop walks the list from its end
InsertStepReversed(p, fails, salt) ==
    LET r   == run[p]
        m   == r.batch[Len(r.batch) + 1 - r.i]
        res == insertEmail(emails, emailDataMessageId(p, m, salt), fails, p)
        r1  == Fault([r EXCEPT !.attempted = r.attempted + 1], fails)
    IN  /\ r.pc = "insert"
        /\ Salted(p, m, salt)
        /\ emails' = res.emails
        /\ mailLog' = IF res.id # NoId THEN Append(mailLog, <<>>) ELSE mailLog
        /\ run' = [run EXCEPT ![p] =
                IF res.rejected THEN Errored(p, r1)
                ELSE IF res.id = NoId THEN Skipped(p, r1)
                ELSE IF isOpenAIConfigured THEN [r1 EXCEPT !.emailId = res.id, !.pc = "ai"]
                ELSE Saved(p, [r1 EXCEPT !.emailId = res.id])]
        /\ UNCHANGED <<responses, autoSend, aiState, service>>

\* await db.insertEmail(emailData)
InsertStep(p, fails, salt) ==
    LET r   == run[p]
        res == insertEmail(emails, emailDataMessageId(p, r.batch[r.i], salt), fails, p)
        r1  == Fault([r EXCEPT !.attempted = r.attempted + 1], fails)
    IN  /\ r.pc = "insert"
        /\ Salted(p, r.batch[r.i], salt)
        /\ emails' = res.emails
        /\ mailLog' = IF res.id # NoId THEN Append(mailLog, <<>>) ELSE mailLog
        /\ run' = [run EXCEPT ![p] =
                IF res.rejected THEN Errored(p, r1)
                ELSE IF res.id = NoId THEN Skipped(p, r1)
                ELSE IF isOpenAIConfigured THEN [r1 EXCEPT !.emailId = res.id, !.pc = "ai"]
                ELSE Saved(p, [r1 EXCEPT !.emailId = res.id])]
        /\ UNCHANGED <<responses, autoSend, aiState, service>>

\* analyzeEmail, summarizeEmail, generateIntelligentResponse: no store access.
\* throws: the service is not initialised, or the model's JSON is no object
AIStep(p, throws, priority) ==
    LET r == run[p]
    IN  /\ r.pc = "ai"
        /\ ~isConfigured => throws
        /\ throws => priority = Null
        /\ run' = [run EXCEPT ![p] =
                IF throws THEN AiFailed(p, r)
                ELSE [r EXCEPT !.analysis = priority, !.pc = "updateAnalysis"]]
        /\ UNCHANGED <<emails, responses, autoSend, aiState, mailLog, service>>

\* await db.updateEmailAnalysis(emailId, {...})
UpdateAnalysisStep(p, fails) ==
    LET r == run[p]
    IN  /\ r.pc = "updateAnalysis"
        /\ emails' = IF fails THEN emails
                     ELSE updateEmailAnalysis(emails, r.emailId, r.analysis, "summary")
        /\ run' = [run EXCEPT ![p] =
                IF fails THEN AiFailed(p, Fault(r, fails))
                ELSE [r EXCEPT !.pc = "insertResponse"]]
        /\ UNCHANGED <<responses, autoSend, aiState, mailLog, service>>

\* await db.insertResponse(emailId, aiResponse); aiResponse is never empty
InsertResponseStep(p, fails) ==
    LET r == run[p]
    IN  /\ r.pc = "insertResponse"
        /\ responses' = IF fails THEN responses ELSE insertResponse(responses, r.emailId)
        /\ run' = [run EXCEPT ![p] =
                IF fails THEN AiFailed(p, Fault(r, fails))
                ELSE IF AutoDispatch(p, r) THEN [r EXCEPT !.pc = "send"]
                ELSE Saved(p, r)]
        /\ UNCHANGED <<emails, autoSend, aiState, mailLog, service>>

\* await gmailService.sendResponse(...)
SendStep(p, fails) ==
    LET r == run[p]
    IN  /\ r.pc = "send"
        /\ mailLog' = [mailLog EXCEPT ![r.emailId] = Append(@, IF fails THEN "failed" ELSE "sent")]
        /\ run' = [run EXCEPT ![p] =
                IF fails THEN SendFailed(p, Fault(r, fails)) ELSE [r EXCEPT !.pc = "markSent"]]
        /\ UNCHANGED <<emails, responses, autoSend, aiState, service>>

\* await db.markResponseAsSent(emailId)
MarkSentStep(p, fails) ==
    LET r == run[p]
    IN  /\ r.pc = "markSent"
        /\ responses' = IF fails THEN responses ELSE markResponseAsSent(responses, r.emailId)
        /\ run' = [run EXCEPT ![p] =
                IF fails THEN SendFailed(p, Fault(r, fails))
                ELSE [r EXCEPT !.pc = "updateStatus"]]
        /\ UNCHANGED <<emails, autoSend, aiState, mailLog, service>>

\* await db.updateEmailStatus(emailId, 'responded')
UpdateStatusStep(p, fails) ==
    LET r == run[p]
    IN  /\ r.pc = "updateStatus"
        /\ emails' = IF fails THEN emails
                     ELSE updateEmailStatus(emails, r.emailId, "responded")
        /\ run' = [run EXCEPT ![p] =
                IF fails THEN SendFailed(p, Fault(r, fails))
                ELSE Saved(p, r)]
        /\ UNCHANGED <<responses, autoSend, aiState, mailLog, service>>

\* one await of the loop of run p
LoopStep(p) ==
        \/ \E fails \in BOOLEAN, salt \in Salts : InsertStep(p, fails, salt)
        \/ \E throws \in BOOLEAN, priority \in AnalysisPriorities : AIStep(p, throws, priority)
        \/ \E fails \in BOOLEAN : UpdateAnalysisStep(p, fails)
        \/ \E fails \in BOOLEAN : InsertResponseStep(p, fails)
        \/ \E fails \in BOOLEAN : SendStep(p, fails)
        \/ \E fails \in BOOLEAN : MarkSentStep(p, fails)
        \/ \E fails \in BOOLEAN : UpdateStatusStep(p, fails)

Next ==
    \E p \in Runs :
        \/ \E msgs \in Batches : StartBatch(p, msgs)
        \/ LoopStep(p)

Spec == Init /\ [][Next]_vars

\* ------------------------------------------------------- the fetch cycle
\* the order users.messages.list returns the mailbox's messages in
ListOrder == <<"m1", "m2">>

\* the handler's state when fetchSupportEmails has returned msgs
Fetched(msgs) ==
    [IdleRun EXCEPT !.batch = msgs, !.pc = IF Len(msgs) = 0 THEN "done" ELSE "insert"]

\* the trigger fires with Gmail configured: gmail.users.messages.list for
\* is:unread.  fails: the call rejects, fetchSupportEmails throws and the
\* handler's catch ends the cycle
ListMessages(p, fails) ==
    LET messages == SelectSeq(ListOrder, LAMBDA m : m \in gmail.unread)
    IN  /\ run[p].pc = "idle"
        /\ run' = [run EXCEPT ![p] =
                IF fails \/ Len(messages) = 0 THEN Fetched(<<>>)
                ELSE [IdleRun EXCEPT !.pc = "fetch"]]
        /\ gmail' = [gmail EXCEPT !.call[p].messages = IF fails THEN <<>> ELSE messages]
        /\ UNCHANGED <<emails, responses, autoSend, aiState, mailLog, mail, reply,
                       knowledgeBase>>

\* (mutant) markAsRead is called before the push and rethrows, so its failure
\* reaches the catch around the message
FetchMessageMarkFirst(p, getFails, markFails) ==
    LET c == gmail.call[p]
        m == Head(c.messages)
        pushed == IF getFails \/ markFails THEN c.emails ELSE Append(c.emails, m)
    IN  /\ run[p].pc = "fetch"
        /\ getFails => ~markFails
        /\ gmail' = [gmail EXCEPT
                !.unread = IF getFails \/ markFails THEN @ ELSE @ \ {m},
                !.call[p] = [messages |-> Tail(c.messages),
                             emails |-> pushed,
                             tried |-> IF getFails THEN c.tried ELSE c.tried \cup {m},
                             failed |-> IF markFails THEN c.failed \cup {m} ELSE c.failed]]
        /\ run' = [run EXCEPT ![p] =
                IF Len(c.messages) = 1 THEN Fetched(pushed) ELSE run[p]]
        /\ UNCHANGED <<emails, responses, autoSend, aiState, mailLog, mail, reply,
                       knowledgeBase>>

\* one turn of the loop of fetchSupportEmails: users.messages.get and
\* parseEmailMessage (getFails: the call throws or the parse gives null, the
\* message is left out), emails.push, markAsRead (markFails: users.messages.modify
\* rejects, which markAsRead logs); after the last turn the list is returned
FetchMessage(p, getFails, markFails) ==
    LET c == gmail.call[p]
        m == Head(c.messages)
        pushed == IF getFails THEN c.emails ELSE Append(c.emails, m)
    IN  /\ run[p].pc = "fetch"
        /\ getFails => ~markFails
        /\ gmail' = [gmail EXCEPT
                !.unread = IF getFails \/ markFails THEN @ ELSE @ \ {m},
                !.call[p] = [messages |-> Tail(c.messages),
                             emails |-> pushed,
                             tried |-> IF getFails THEN c.tried ELSE c.tried \cup {m},
                             failed |-> IF markFails THEN c.failed \cup {m} ELSE c.failed]]
        /\ run' = [run EXCEPT ![p] =
                IF Len(c.messages) = 1 THEN Fetched(pushed) ELSE run[p]]
        /\ UNCHANGED <<emails, responses, autoSend, aiState, mailLog, mail, reply,
                       knowledgeBase>>

\* the two triggers, each with its fetch and its loop
FetchNext ==
    \E p \in Runs :
        \/ \E fails \in BOOLEAN : ListMessages(p, fails)
        \/ \E getFails, markFails \in BOOLEAN : FetchMessage(p, getFails, markFails)
        \/ LoopStep(p)

FetchSpec == Init /\ [][FetchNext]_vars

\* ------------------------------------------- messages without an identifier
\* the lists fetchSupportEmails hands over when Gmail's messages lack their id
\* (Null: neither email.messageId nor email.id is set)
IdlessBatches == {[k \in 1..n |-> Null] : n \in 0..MaxBatch}

IngestNext ==
    \E p \in Runs :
        \/ \E msgs \in IdlessBatches : StartBatch(p, msgs)
        \/ LoopStep(p)

IngestSpec == Init /\ [][IngestNext]_vars

\* ============================================================ the AI service
\* ------------------------------------------------------ JavaScript strings
\* Strings are sequences of characters, indexed from 1 here and from 0 in the code.
Min(a, b) == IF a < b THEN a ELSE b

\* String.prototype.substring(0, n)
substring(s, n) == SubSeq(s, 1, Min(n, Len(s)))

\* String.prototype.slice(n)
slice(s, n) == SubSeq(s, n + 1, Len(s))

\* s has t at 0-based position i
At(s, i, t) == i + Len(t) <= Len(s) /\ SubSeq(s, i + 1, i + Len(t)) = t

\* String.prototype.includes
includes(s, t) == \E i \in 0..(Len(s) - Len(t)) : At(s, i, t)

\* the first position from i on where s has t, or -1
RECURSIVE search(_, _, _)
search(s, t, i) ==
    IF i + Len(t) > Len(s) THEN -1
    ELSE IF At(s, i, t) THEN i
    ELSE search(s, t, i + 1)

\* String.prototype.indexOf
indexOf(s, t) == search(s, t, 0)

UpperCase == "ABCDEFGHIJKLMNOPQRSTUVWXYZ"
LowerCase == "abcdefghijklmnopqrstuvwxyz"

\* character c moved from alphabet `from` to alphabet `to`
Recase(c, from, to) ==
    LET i == indexOf(from, c)
    IN  IF i = -1 THEN c ELSE SubSeq(to, i + 1, i + 1)

\* String.prototype.toLowerCase, character by character (the two halves apart)
RECURSIVE toLowerCase(_)
toLowerCase(s) ==
    IF Len(s) = 0 THEN ""
    ELSE IF Len(s) = 1 THEN Recase(s, UpperCase, LowerCase)
    ELSE toLowerCase(SubSeq(s, 1, Len(s) \div 2))
            \o toLowerCase(SubSeq(s, Len(s) \div 2 + 1, Len(s)))

\* part.charAt(0).toUpperCase() + part.slice(1)
Capitalize(part) ==
    IF part = "" THEN "" ELSE Recase(Head(part), LowerCase, UpperCase) \o slice(part, 1)

\* String.prototype.split on a one-character separator
RECURSIVE split(_, _)
split(s, sep) ==
    LET i == indexOf(s, sep)
    IN  IF i = -1 THEN <<s>>
        ELSE <<substring(s, i)>> \o split(slice(s, i + 1), sep)

\* Array.prototype.join
RECURSIVE join(_, _)
join(parts, sep) ==
    IF Len(parts) = 0 THEN ""
    ELSE IF Len(parts) = 1 THEN parts[1]
    ELSE parts[1] \o sep \o join(Tail(parts), sep)

\* String.prototype.trimStart / trimEnd / trim over blanks and line breaks
WhiteSpace == {" ", "\n", "\t", "\r"}

RECURSIVE trimStart(_)
trimStart(s) == IF s # "" /\ Head(s) \in WhiteSpace THEN trimStart(Tail(s)) ELSE s

RECURSIVE trimEnd(_)
trimEnd(s) ==
    IF s # "" /\ SubSeq(s, Len(s), Len(s)) \in WhiteSpace
    THEN trimEnd(SubSeq(s, 1, Len(s) - 1)) ELSE s

trim(s) == trimEnd(trimStart(s))

\* ------------------------------------------------------- JavaScript values
Undefined == [t |-> "undefined"]
JsNull == [t |-> "null"]
Str(s) == [t |-> "string", v |-> s]
Arr(q) == [t |-> "array", v |-> q]
\* f: a function from property names to values
Obj(f) == [t |-> "object", v |-> f]

\* the property read x.k for x other than null and undefined (those throw TypeError)
Get(x, k) == IF x.t = "object" /\ k \in DOMAIN x.v THEN x.v[k] ELSE Undefined

\* !x
Falsy(x) == x.t \in {"undefined", "null"} \/ (x.t = "string" /\ x.v = "")

\* x || d
OrElse(x, d) == IF Falsy(x) THEN d ELSE x

\* x === 'text'
Is(x, text) == x.t = "string" /\ x.v = text

\* ------------------------------------------------------------- JSON.parse
\* The grammar of the answers enumerated below: null, strings without escapes,
\* arrays and objects, blanks between tokens.  Positions are 1-based; a parse
\* answers [ok, v, i]: the value read and the position after it.
SyntaxError == [ok |-> FALSE, v |-> Undefined, i |-> 0]

RECURSIVE skip(_, _)
skip(s, i) == IF i <= Len(s) /\ SubSeq(s, i, i) \in WhiteSpace THEN skip(s, i + 1) ELSE i

\* the string literal whose opening quote stands at i
parseString(s, i) ==
    LET rest == slice(s, i)
        j    == indexOf(rest, "\"")
    IN  IF j = -1 THEN SyntaxError
        ELSE [ok |-> TRUE, v |-> Str(substring(rest, j)), i |-> i + j + 2]

RECURSIVE parseValue(_, _)
RECURSIVE parseMembers(_, _, _)
RECURSIVE parseElements(_, _, _)

\* the members of an object from position i on, acc holding those already read
\* (a repeated name keeps its last value)
parseMembers(s, i, acc) ==
    IF ~At(s, i - 1, "\"") THEN SyntaxError
    ELSE LET k == parseString(s, i)
         IN  IF ~k.ok THEN SyntaxError
             ELSE LET c == skip(s, k.i)
                  IN  IF ~At(s, c - 1, ":") THEN SyntaxError
                      ELSE LET val == parseValue(s, c + 1)
                           IN  IF ~val.ok THEN SyntaxError
                               ELSE LET acc2 == [x \in DOMAIN acc \cup {k.v.v} |->
                                                    IF x = k.v.v THEN val.v ELSE acc[x]]
                                        d    == skip(s, val.i)
                                    IN  IF At(s, d - 1, ",")
                                        THEN parseMembers(s, skip(s, d + 1), acc2)
                                        ELSE IF At(s, d - 1, "}")
                                             THEN [ok |-> TRUE, v |-> Obj(acc2), i |-> d + 1]
                                             ELSE SyntaxError

\* the elements of an array from position i on
parseElements(s, i, acc) ==
    LET val == parseValue(s, i)
    IN  IF ~val.ok THEN SyntaxError
        ELSE LET d == skip(s, val.i)
             IN  IF At(s, d - 1, ",") THEN parseElements(s, d + 1, Append(acc, val.v))
                 ELSE IF At(s, d - 1, "]")
                      THEN [ok |-> TRUE, v |-> Arr(Append(acc, val.v)), i |-> d + 1]
                      ELSE SyntaxError

parseValue(s, i0) ==
    LET i == skip(s, i0)
    IN  IF At(s, i - 1, "null") THEN [ok |-> TRUE, v |-> JsNull, i |-> i + 4]
        ELSE IF At(s, i - 1, "\"") THEN parseString(s, i)
        ELSE IF At(s, i - 1, "{")
             THEN IF At(s, skip(s, i + 1) - 1, "}")
                  THEN [ok |-> TRUE, v |-> Obj(<<>>), i |-> skip(s, i + 1) + 1]
                  ELSE parseMembers(s, skip(s, i + 1), <<>>)
        ELSE IF At(s, i - 1, "[")
             THEN IF At(s, skip(s, i + 1) - 1, "]")
                  THEN [ok |-> TRUE, v |-> Arr(<<>>), i |-> skip(s, i + 1) + 1]
                  ELSE parseElements(s, i + 1, <<>>)
        ELSE SyntaxError

\* JSON.parse(text): [ok, v]; ok false is the SyntaxError it throws
JSONparse(text) ==
    LET r == parseValue(text, 1)
    IN  IF r.ok /\ skip(text, r.i) = Len(text) + 1 THEN [ok |-> TRUE, v |-> r.v]
        ELSE [ok |-> FALSE, v |-> Undefined]

\* ------------------------------------------------------ fallbackAnalysis
urgentKeywords ==
    <<"urgent", "emergency", "critical", "asap", "immediately", "broken", "not working",
      "down", "error", "bug", "crash", "help", "refund", "cancel", "dispute">>

positiveKeywords ==
    <<"thank", "great", "excellent", "amazing", "love", "perfect", "wonderful",
      "satisfied", "happy">>

negativeKeywords ==
    <<"angry", "frustrated", "terrible", "awful", "hate", "worst", "disappointed",
      "useless", "broken", "problem">>

\* keywords.filter(keyword => text.includes(keyword))
Found(keywords, text) == SelectSeq(keywords, LAMBDA keyword : includes(text, keyword))

\* let sentiment: the larger count wins, a tie is neutral
Sentiment(positiveCount, negativeCount) ==
    IF positiveCount > negativeCount THEN "positive"
    ELSE IF negativeCount > positiveCount THEN "negative"
    ELSE "neutral"

\* (mutant) 'broken' counts as a technical term
CategoryBrokenIsTechnical(text, positiveCount, negativeCount) ==
    IF includes(text, "bill") \/ includes(text, "payment") \/ includes(text, "charge")
    THEN "billing"
    ELSE IF includes(text, "login") \/ includes(text, "password") \/ includes(text, "account")
    THEN "account"
    ELSE IF includes(text, "bug") \/ includes(text, "error") \/ includes(text, "not working")
            \/ includes(text, "broken")
    THEN "technical"
    ELSE IF includes(text, "refund") \/ includes(text, "cancel") THEN "refund"
    ELSE IF negativeCount > 0 THEN "complaint"
    ELSE IF positiveCount > 0 THEN "compliment"
    ELSE "general"

\* (mutant) the refund rule is tested first
CategoryRefundFirst(text, positiveCount, negativeCount) ==
    IF includes(text, "refund") \/ includes(text, "cancel") THEN "refund"
    ELSE IF includes(text, "bill") \/ includes(text, "payment") \/ includes(text, "charge")
    THEN "billing"
    ELSE IF includes(text, "login") \/ includes(text, "password") \/ includes(text, "account")
    THEN "account"
    ELSE IF includes(text, "bug") \/ includes(text, "error") \/ includes(text, "not working")
    THEN "technical"
    ELSE IF negativeCount > 0 THEN "complaint"
    ELSE IF positiveCount > 0 THEN "compliment"
    ELSE "general"

\* let category: the first rule that matches
Category(text, positiveCount, negativeCount) ==
    IF includes(text, "bill") \/ includes(text, "payment") \/ includes(text, "charge")
    THEN "billing"
    ELSE IF includes(text, "login") \/ includes(text, "password") \/ includes(text, "account")
    THEN "account"
    ELSE IF includes(text, "bug") \/ includes(text, "error") \/ includes(text, "not working")
    THEN "technical"
    ELSE IF includes(text, "refund") \/ includes(text, "cancel") THEN "refund"
    ELSE IF negativeCount > 0 THEN "complaint"
    ELSE IF positiveCount > 0 THEN "compliment"
    ELSE "general"

\* (mutant) the category is tested before the question mark
RequestTypeRefundFirst(text, category) ==
    IF category = "refund" THEN "refund"
    ELSE IF includes(text, "?") THEN "question"
    ELSE "request"

\* requestType
RequestType(text, category) ==
    IF includes(text, "?") THEN "question"
    ELSE IF category = "refund" THEN "refund"
    ELSE "request"

\* an array of strings as a JavaScript value
Strs(q) == Arr([j \in 1..Len(q) |-> Str(q[j])])

\* AIService.fallbackAnalysis: subject and body are strings
fallbackAnalysis(subject, body) ==
    LET text                == toLowerCase(subject \o " " \o body)
        foundUrgentKeywords == Found(urgentKeywords, text)
        isUrgent            == Len(foundUrgentKeywords) > 0
        positiveCount       == Len(Found(positiveKeywords, text))
        negativeCount       == Len(Found(negativeKeywords, text))
        category            == Category(text, positiveCount, negativeCount)
    IN  Obj([sentiment |-> Str(Sentiment(positiveCount, negativeCount)),
             priority |-> Str(IF isUrgent THEN "urgent" ELSE "normal"),
             extractedInfo |->
                Obj([category |-> Str(category),
                     urgencyKeywords |-> Strs(foundUrgentKeywords),
                     customerEmotion |-> Str(IF negativeCount > 0 THEN "frustrated"
                                             ELSE IF positiveCount > 0 THEN "happy"
                                             ELSE "neutral"),
                     requestType |-> Str(RequestType(text, category)),
                     keyPoints |-> Strs(<<IF subject = "" THEN "No specific points identified"
                                          ELSE subject>>),
                     mentionedProducts |-> Arr(<<>>)])])

\* ------------------------------------------------------ the model backend
\* What openai.chat.completions.create answers one call with: it rejects (network,
\* authentication, rate limit, timeout), or resolves with a completion that has
\* no content, or with a completion whose content is text.
BackendError == [kind |-> "error", text |-> ""]
NoContent == [kind |-> "empty", text |-> ""]
Content(text) == [kind |-> "content", text |-> text]

\* response.choices[0]?.message?.content?.trim(): a string, or undefined
ContentOf(answer) == IF answer.kind = "content" THEN Str(trim(answer.text)) ELSE Undefined

\* what a method hands its caller: a returned value, or a thrown Error(message)
Return(v) == [threw |-> FALSE, value |-> v]
Throw(message) == [threw |-> TRUE, value |-> Str(message)]

\* ----------------------------------------------------------- analyzeEmail
\* AIService.analyzeEmail; JSON.parse(undefined) parses the text 'undefined'
analyzeEmail(subject, body, answer) ==
    IF ~isConfigured THEN Throw("AI service not configured")
    ELSE IF answer.kind = "error" THEN Return(fallbackAnalysis(subject, body))
    ELSE LET analysisText == ContentOf(answer)
             parsed       == JSONparse(IF analysisText.t = "undefined" THEN "undefined"
                                       ELSE analysisText.v)
         IN  IF parsed.ok THEN Return(parsed.v)
             ELSE Return(fallbackAnalysis(subject, body))

\* the parameters the batch loops hand to updateEmailAnalysis for an analysis
\* other than null (analysis.sentiment || 'neutral', analysis.priority || 'normal')
AnalysisParams(analysis) ==
    [sentiment |-> OrElse(Get(analysis, "sentiment"), Str("neutral")),
     priority |-> OrElse(Get(analysis, "priority"), Str("normal"))]

\* --------------------------------------------------------- summarizeEmail
\* the characters of subject and body the fallback summary previews
PreviewBudget == 200

\* summary.replace(/^Summary:?\s*/i, '')
StripSummaryLabel(summary) ==
    IF toLowerCase(substring(summary, 7)) = "summary"
    THEN LET afterLabel == slice(summary, 7)
         IN  trimStart(IF At(afterLabel, 0, ":") THEN slice(afterLabel, 1) ELSE afterLabel)
    ELSE summary

\* the catch block of summarizeEmail: subject and body are strings
FallbackSummary(subject, body) ==
    LET text == substring(subject \o " " \o body, PreviewBudget)
    IN  "Email from customer regarding: "
            \o (IF subject = "" THEN "general inquiry" ELSE subject)
            \o ". Content preview: " \o text \o "..."

\* AIService.summarizeEmail; summary.replace on undefined throws inside the try
summarizeEmail(subject, body, answer) ==
    IF ~isConfigured THEN Throw("AI service not configured")
    ELSE IF answer.kind = "error" THEN Return(Str(FallbackSummary(subject, body)))
    ELSE LET summary == ContentOf(answer)
         IN  IF summary.t = "undefined" THEN Return(Str(FallbackSummary(subject, body)))
             ELSE Return(Str(StripSummaryLabel(summary.v)))

\* ------------------------------------------------ the response synthesizer
\* AIService.extractCustomerName: senderEmail is a string, '' when there is none
extractCustomerName(senderEmail) ==
    IF senderEmail = "" THEN "Customer"
    ELSE LET emailPrefix == split(senderEmail, "@")[1]
             parts       == split(emailPrefix, ".")
         IN  IF includes(emailPrefix, ".")
             THEN join([j \in 1..Len(parts) |-> Capitalize(parts[j])], " ")
             ELSE Capitalize(emailPrefix)

\* /^Subject:.*$/
IsSubjectLine(line) == At(line, 0, "Subject:")

\* /^Dear.*,$/
IsSalutationLine(line) ==
    At(line, 0, "Dear") /\ Len(line) >= 5 /\ At(line, Len(line) - 1, ",")

\* .replace(/^Subject:.*$/gm, ''): the pattern is anchored at both ends of a
\* line, so each matching line is emptied
EmptySubjectLines(text) ==
    LET lines == split(text, "\n")
    IN  join([j \in 1..Len(lines) |-> IF IsSubjectLine(lines[j]) THEN "" ELSE lines[j]],
             "\n")

\* .replace(/^Dear.*,$/gm, '')
EmptySalutationLines(text) ==
    LET lines == split(text, "\n")
    IN  join([j \in 1..Len(lines) |-> IF IsSalutationLine(lines[j]) THEN "" ELSE lines[j]],
             "\n")

\* the first position from i on where a line of text begins with t, or -1
RECURSIVE searchLine(_, _, _)
searchLine(text, t, i) ==
    IF i + Len(t) > Len(text) THEN -1
    ELSE IF At(text, i, t) /\ (i = 0 \/ At(text, i - 1, "\n")) THEN i
    ELSE searchLine(text, t, i + 1)

\* text up to the first match of t (anywhere, or only at the start of a line): a
\* replace of /t.*$/ with flags g, m and s
CutFrom(text, t, lineStart) ==
    LET i == IF lineStart THEN searchLine(text, t, 0) ELSE indexOf(text, t)
    IN  IF i = -1 THEN text ELSE substring(text, i)

\* .replace(/^(Dear|Hello|Hi).*?,?\s*/i, ''): the lazy .*? matches nothing
StripGreeting(text) ==
    LET start == toLowerCase(substring(text, 5))
        n     == IF At(start, 0, "dear") THEN 4
                 ELSE IF At(start, 0, "hello") THEN 5
                 ELSE IF At(start, 0, "hi") THEN 2
                 ELSE 0
        after == slice(text, n)
    IN  IF n = 0 THEN text
        ELSE trimStart(IF At(after, 0, ",") THEN slice(after, 1) ELSE after)

\* AIService.generateFallbackResponse; reading analysis.priority of null or
\* undefined throws TypeError
generateFallbackResponse(analysis, senderEmail) ==
    LET customerName == IF senderEmail = "" THEN "Customer" ELSE split(senderEmail, "@")[1]
        urgent       == Is(Get(analysis, "priority"), "urgent")
        sentiment    == Get(analysis, "sentiment")
    IN  IF analysis.t \in {"null", "undefined"}
        THEN Throw("TypeError: Cannot read properties of null")
        ELSE Return(Str(
            "Hello " \o customerName \o ",\n\nThank you for contacting our support team."
            \o (IF urgent THEN " We understand this is urgent and will prioritize your request."
                ELSE "")
            \o (IF Is(sentiment, "negative")
                THEN " We sincerely apologize for any inconvenience you may have experienced."
                ELSE IF Is(sentiment, "positive") THEN " We appreciate your positive feedback!"
                ELSE "")
            \o " We are reviewing your message and will get back to you within 24 hours with a detailed response."
            \o (IF urgent
                THEN " For immediate assistance, you can also call our support line at (555) 123-4567."
                ELSE "")
            \o "\n\nBest regards,\nCustomer Support Team\nEmail: support@yourcompany.com"))

\* an answer the backend was not asked for
NotAsked == [kind |-> "none", text |-> ""]

\* the try block cannot use the analysis (reading analysis.sentiment for the
\* prompt throws TypeError) or the backend's answer (the call rejects, or
\* generatedResponse.replace on undefined throws)
TryFails(analysis, answer) ==
    \/ analysis.t \in {"null", "undefined"}
    \/ answer.kind = "error"
    \/ ContentOf(answer).t = "undefined"

\* AIService.generateResponse: [threw, value, asked], asked telling whether the
\* backend was called
generateResponse(subject, body, senderEmail, analysis, answer) ==
    IF ~isConfigured
    THEN [threw |-> TRUE, value |-> Str("AI service not configured"), asked |-> FALSE]
    ELSE IF TryFails(analysis, answer)
    THEN LET out == generateFallbackResponse(analysis, senderEmail)
         IN  [threw |-> out.threw, value |-> out.value,
              asked |-> analysis.t \notin {"null", "undefined"}]
    ELSE LET generatedResponse ==
                 trim(CutFrom(EmptySalutationLines(EmptySubjectLines(ContentOf(answer).v)),
                              "Best regards,", TRUE))
         IN  [threw |-> FALSE,
              value |-> Str(generatedResponse
                    \o "\n\nBest regards,\nAI Customer Support\nEmail: support@yourcompany.com\nResponse Time: 24 hours"),
              asked |-> TRUE]

\* AIService.generateIntelligentResponse; answers: of the backend to the analysis
\* prompt and the response prompt of the try block, then to those of the catch
\* block; [threw, value, asked], asked the calls made of these four
generateIntelligentResponse(subject, body, senderEmail, tone, answers) ==
    IF ~isConfigured
    THEN [threw |-> TRUE, value |-> Str("AI service not configured"), asked |-> {}]
    ELSE LET analysis == analyzeEmail(subject, body, answers[1]).value
         IN  IF ~TryFails(analysis, answers[2])
             THEN LET generatedResponse ==
                          trim(CutFrom(EmptySubjectLines(StripGreeting(ContentOf(answers[2]).v)),
                                       "Best regards", FALSE))
                      customerName == extractCustomerName(senderEmail)
                      greeting     == IF tone = "formal" THEN "Dear " \o customerName
                                      ELSE "Hello " \o customerName
                      signature    ==
                          IF tone = "formal"
                          THEN "\n\nSincerely,\nCustomer Support Team\nsupport@yourcompany.com\n(555) 123-4567"
                          ELSE "\n\nBest regards,\nThe Support Team\nsupport@yourcompany.com\nWe're here to help!"
                  IN  [threw |-> FALSE,
                       value |-> Str(greeting \o ",\n\n" \o generatedResponse \o signature),
                       asked |-> {1, 2}]
             ELSE LET again == analyzeEmail(subject, body, answers[3]).value
                      out   == generateResponse(subject, body, senderEmail, again, answers[4])
                  IN  [threw |-> out.threw, value |-> out.value,
                       asked |-> {1, 3}
                                 \cup (IF analysis.t \in {"null", "undefined"} THEN {} ELSE {2})
                                 \cup (IF out.asked THEN {4} ELSE {})]

\* ------------------------------------------------------ the knowledge base
\* String.prototype.replace(t, u) with a string pattern: the first occurrence
replace(s, t, u) ==
    LET i == indexOf(s, t)
    IN  IF i = -1 THEN s ELSE substring(s, i) \o u \o slice(s, i + Len(t))

\* obj[key] = info: an own key keeps its place, a new one goes to the end
SetEntry(entries, key, info) ==
    IF \E j \in 1..Len(entries) : entries[j].key = key
    THEN [j \in 1..Len(entries) |->
            IF entries[j].key = key THEN [key |-> key, info |-> info] ELSE entries[j]]
    ELSE Append(entries, [key |-> key, info |-> info])

\* AIService.updateKnowledgeBase: the knowledge base after the call
updateKnowledgeBase(kb, category, key, value) ==
    IF category \in DOMAIN kb
    THEN [kb EXCEPT ![category] = SetEntry(@, key, value)]
    ELSE kb

\* the lines one forEach pushes for the entries hits
Lines(hits, label) ==
    [j \in 1..Len(hits) |-> label \o " (" \o hits[j].key \o "): " \o hits[j].info]

\* AIService.buildKnowledgeContext: subject and body are strings
buildKnowledgeContext(kb, subject, body) ==
    LET text == toLowerCase(subject \o " " \o body)
        relevantKnowledge ==
            Lines(SelectSeq(kb.products, LAMBDA e : includes(text, e.key)), "Product Info")
            \o Lines(SelectSeq(kb.policies,
                               LAMBDA e : \/ includes(text, e.key)
                                          \/ includes(text, replace(e.key, "_", " "))),
                     "Policy")
            \o Lines(SelectSeq(kb.commonIssues, LAMBDA e : includes(text, e.key)),
                     "Common Issue")
    IN  IF Len(relevantKnowledge) > 0 THEN join(relevantKnowledge, "\n")
        ELSE "No specific knowledge base information found for this query."

\* ------------------------------------------------- the service's inputs
RECURSIVE Repeat(_, _)
Repeat(s, n) == IF n = 0 THEN "" ELSE s \o Repeat(s, n - 1)

\* a body longer than the summary's preview
LongBody == Repeat("The export still fails. ", 9)

\* the messages the mailbox delivers: subject, body and sender are strings, ''
\* where the message carries none
Mails ==
    {[subject |-> "", body |-> "", sender |-> ""],
     [subject |-> "", body |-> "This is urgent, the app is broken, please help asap",
      sender |-> "jane.doe@example.com"],
     [subject |-> "Refund?", body |-> "Please cancel my plan and refund the last bill.",
      sender |-> "bob@example.com"],
     [subject |-> "Login problem", body |-> LongBody, sender |-> "jane.doe@example.com"],
     [subject |-> "", body |-> "Thank you, great support!", sender |-> "bob@example.com"]}

\* answers of the backend to the analysis prompt
AnalysisAnswers ==
    {BackendError, NoContent,
     Content("{\"sentiment\":\"negative\",\"priority\":\"urgent\",\"extractedInfo\":{\"category\":\"technical\",\"urgencyKeywords\":[\"broken\"]}}"),
     Content(" {\"sentiment\": \"positive\", \"priority\": \"low\"} "),
     Content("I could not analyze this email."),
     Content("{\"sentiment\":\"positive\"}"),
     Content("{\"sentiment\":\"mixed\",\"priority\":\"high\"}"),
     Content("null")}

\* answers of the backend to the summary prompt
SummaryAnswers ==
    {BackendError, NoContent,
     Content("Summary: The customer asks for a refund of the last bill."),
     Content("The customer reports that the app is broken.")}

\* answers of the backend to the analysis prompts of the synthesizer
SynthAnalysisAnswers ==
    {BackendError,
     Content("{\"sentiment\":\"negative\",\"priority\":\"urgent\"}"),
     Content("null")}

\* answers of the backend to the response prompts
ResponseAnswers ==
    {BackendError, NoContent,
     Content("Hello Jane,\n\nSubject: Re: your request\nWe are looking into it.\n\nBest regards,\nSupport"),
     Content("We are sorry for the trouble and will fix it today.")}

\* the tone a generate-response request asks for ('professional' when it names none)
Tones == {"professional", "formal"}

\* the columns sender, subject and body of the record a run stored for message m:
\* the manual run stores placeholders for what is missing
StoredMail(p, m) ==
    IF p = "manual"
    THEN [sender |-> IF m.sender = "" THEN "unknown@example.com" ELSE m.sender,
          subject |-> IF m.subject = "" THEN "No Subject" ELSE m.subject,
          body |-> IF m.body = "" THEN "No content" ELSE m.body]
    ELSE m

\* ------------------------------- the service: one call or request a behaviour
\* one message with text mail, stored by either run (the scheduled run hands the
\* sender over as it is and the column is NOT NULL); no batch run is under way
ServiceInit ==
    /\ aiState \in {"nokey", "uninit", "ready"}
    /\ mail \in Mails
    /\ \E p \in Runs :
            /\ p = "sched" => mail.sender # ""
            /\ emails = insertEmail(<<>>, "m1", FALSE, p).emails
    /\ responses = <<>>
    /\ reply = [op |-> "none"]
    /\ knowledgeBase = BuiltInKnowledge
    /\ gmail = Mailbox
    /\ autoSend = FALSE
    /\ run = [p \in Runs |-> IdleRun]
    /\ mailLog = << <<>> >>

\* the variables a call of the service leaves alone
batchVars == <<autoSend, aiState, run, mailLog, mail, knowledgeBase, gmail>>

\* a handler of server.js calls aiService.analyzeEmail; each of them has tested
\* isOpenAIConfigured() before
AnalyzeEmail(answer) ==
    LET out == analyzeEmail(mail.subject, mail.body, answer)
    IN  /\ reply.op = "none"
        /\ isOpenAIConfigured
        /\ reply' = [op |-> "analyzeEmail", answers |-> <<answer>>,
                     threw |-> out.threw, value |-> out.value]
        /\ UNCHANGED <<emails, responses, batchVars>>

\* a handler calls aiService.summarizeEmail, having tested isOpenAIConfigured()
SummarizeEmail(answer) ==
    LET out == summarizeEmail(mail.subject, mail.body, answer)
    IN  /\ reply.op = "none"
        /\ isOpenAIConfigured
        /\ reply' = [op |-> "summarizeEmail", answers |-> <<answer>>,
                     threw |-> out.threw, value |-> out.value]
        /\ UNCHANGED <<emails, responses, batchVars>>

\* the store's part in a request: it serves it, or fails its read, or its write
StoreFaults == {"none", "read", "write"}

\* the status a single-record request ends with, threw telling whether the AI
\* service threw: 500 from the catch block, 404, 400 or 200
Status(id, fault, threw) ==
    IF fault = "read" THEN 500
    ELSE IF ~Found1(emails, id) THEN 404
    ELSE IF ~isOpenAIConfigured THEN 400
    ELSE IF threw \/ fault = "write" THEN 500
    ELSE 200

\* the request gets as far as calling the AI service
ReachesService(id, fault) == fault # "read" /\ Found1(emails, id) /\ isOpenAIConfigured

\* the answers of a script that the call asked the backend for
Asked(answers, asked) ==
    [k \in 1..Len(answers) |-> IF k \in asked THEN answers[k] ELSE NotAsked]

\* a request that ends before it calls the AI service
Refused(op, id, fault) ==
    /\ reply.op = "none"
    /\ ~ReachesService(id, fault)
    /\ fault # "write"
    /\ reply' = [op |-> op, id |-> id, answers |-> <<>>, fault |-> fault,
                 status |-> Status(id, fault, FALSE), threw |-> fault = "read",
                 value |-> Undefined]
    /\ UNCHANGED <<emails, responses, batchVars>>

\* POST /api/emails/:id/summarize
PostSummarize(id, answer, fault) ==
    /\ reply.op = "none"
    /\ ReachesService(id, fault)
    /\ \E email \in {StoredMail(emails[id].by, mail)} :
       \E out \in {summarizeEmail(email.subject, email.body, answer)} :
       \E status \in {Status(id, fault, out.threw)} :
            /\ emails' = IF status = 200
                         THEN updateEmailSummary(emails, id, out.value.v)
                         ELSE emails
            /\ reply' = [op |-> "summarize", id |-> id,
                         answers |-> Asked(<<answer>>, IF isConfigured THEN {1} ELSE {}),
                         fault |-> fault, status |-> status, threw |-> status = 500,
                         value |-> IF status = 200 THEN out.value ELSE Undefined]
    /\ UNCHANGED <<responses, batchVars>>

\* POST /api/emails/:id/generate-response
PostGenerateResponse(id, tone, answers, fault) ==
    /\ reply.op = "none"
    /\ ReachesService(id, fault)
    /\ \E email \in {StoredMail(emails[id].by, mail)} :
       \E out \in {generateIntelligentResponse(email.subject, email.body, email.sender,
                                               tone, answers)} :
       \E status \in {Status(id, fault, out.threw)} :
            /\ responses' = IF status = 200 THEN insertResponse(responses, id)
                            ELSE responses
            /\ reply' = [op |-> "generate-response", id |-> id,
                         answers |-> Asked(answers, out.asked),
                         fault |-> fault, status |-> status, tone |-> tone,
                         threw |-> status = 500,
                         value |-> IF status = 200 THEN out.value ELSE Undefined]
    /\ UNCHANGED <<emails, batchVars>>

\* POST /api/emails/:id/regenerate-response; answers: to the analysis prompt and
\* to the response prompt
PostRegenerateResponse(id, answers, fault) ==
    /\ reply.op = "none"
    /\ ReachesService(id, fault)
    /\ \E email \in {StoredMail(emails[id].by, mail)} :
       \E analysis \in {analyzeEmail(email.subject, email.body, answers[1])} :
       \E out \in {generateResponse(email.subject, email.body, email.sender,
                                    analysis.value, answers[2])} :
       \E status \in {Status(id, fault, analysis.threw \/ out.threw)} :
            /\ responses' = IF status = 200 THEN insertResponse(responses, id)
                            ELSE responses
            /\ reply' = [op |-> "regenerate-response", id |-> id,
                         answers |-> Asked(answers,
                                           (IF isConfigured THEN {1} ELSE {})
                                           \cup (IF ~analysis.threw /\ out.asked
                                                 THEN {2} ELSE {})),
                         fault |-> fault, status |-> status,
                         threw |-> status = 500,
                         value |-> IF status = 200 THEN out.value ELSE Undefined]
    /\ UNCHANGED <<emails, batchVars>>

\* the record ids a request names: the stored one, and one that is not stored
RequestIds == {1, 2}

\* ------------------------------------- the pipeline on a newly created record
\* the store's part in the pipeline: it serves both writes, or fails
\* updateEmailAnalysis, or fails insertResponse
PipelineFaults == {"none", "analysis", "response"}

\* the call at which the try block of the pipeline ends in its catch (aiError),
\* "none" when it runs to its end; reading analysis.sentiment of null throws
FailedAt(analysis, summary, aiResponse, fault) ==
    IF analysis.threw THEN "analyzeEmail"
    ELSE IF summary.threw THEN "summarizeEmail"
    ELSE IF aiResponse.threw THEN "generateIntelligentResponse"
    ELSE IF analysis.value.t \in {"null", "undefined"} \/ fault = "analysis"
    THEN "updateEmailAnalysis"
    ELSE IF fault = "response" THEN "insertResponse"
    ELSE "none"

\* the loop body after insertEmail returned the id of record 1 (auto-dispatch is
\* off): answers[1] to the analysis prompt, answers[2] to the summary prompt,
\* the other four to the prompts of generateIntelligentResponse
ProcessNew(answers, fault) ==
    /\ reply.op = "none"
    /\ isOpenAIConfigured
    /\ \E analysis \in {analyzeEmail(mail.subject, mail.body, answers[1])} :
       \E summary \in {summarizeEmail(mail.subject, mail.body, answers[2])} :
       \E aiResponse \in {generateIntelligentResponse(mail.subject, mail.body, mail.sender,
                                                      "professional", SubSeq(answers, 3, 6))} :
       \E failedAt \in {FailedAt(analysis, summary, aiResponse, fault)} :
            /\ emails' = IF failedAt \in {"none", "insertResponse"}
                         THEN updateEmailAnalysis(emails, 1,
                                                  AnalysisParams(analysis.value).priority.v,
                                                  summary.value.v)
                         ELSE emails
            /\ responses' = IF failedAt = "none" THEN insertResponse(responses, 1)
                            ELSE responses
            /\ reply' = [op |-> "process", failedAt |-> failedAt,
                         fault |-> IF failedAt \in {"updateEmailAnalysis", "insertResponse"}
                                   THEN fault ELSE "none",
                         answers |-> Asked(answers,
                                           (IF isConfigured THEN {1} ELSE {})
                                           \cup (IF ~analysis.threw THEN {2} ELSE {})
                                           \cup (IF ~summary.threw
                                                 THEN {k + 2 : k \in aiResponse.asked}
                                                 ELSE {})),
                         analysis |-> analysis, summary |-> summary, value |-> aiResponse.value]
    /\ UNCHANGED batchVars

\* what the backend answers the pipeline's prompts with
PipelineAnswers ==
    SynthAnalysisAnswers
    \X {Content("The customer reports that the app is broken.")}
    \X SynthAnalysisAnswers
    \X {BackendError, Content("We are sorry for the trouble and will fix it today.")}
    \X SynthAnalysisAnswers
    \X {BackendError, Content("We are sorry for the trouble and will fix it today.")}

ServiceNext ==
    \/ \E answer \in AnalysisAnswers : AnalyzeEmail(answer)
    \/ \E answer \in SummaryAnswers : SummarizeEmail(answer)
    \/ \E op \in {"summarize", "generate-response", "regenerate-response"},
          id \in RequestIds, fault \in StoreFaults :
            Refused(op, id, fault)
    \/ \E id \in RequestIds, answer \in SummaryAnswers, fault \in {"none", "write"} :
            PostSummarize(id, answer, fault)
    \/ \E id \in RequestIds, tone \in Tones, fault \in {"none", "write"},
          answers \in SynthAnalysisAnswers \X ResponseAnswers
                      \X SynthAnalysisAnswers \X ResponseAnswers :
            PostGenerateResponse(id, tone, answers, fault)
    \/ \E id \in RequestIds, fault \in {"none", "write"},
          answers \in SynthAnalysisAnswers \X ResponseAnswers :
            PostRegenerateResponse(id, answers, fault)
    \/ \E answers \in PipelineAnswers, fault \in PipelineFaults : ProcessNew(answers, fault)

ServiceSpec == ServiceInit /\ [][ServiceNext]_vars

\* ------------------------------------------------ the status of a record
\* the values PUT /api/emails/:id/status accepts
Statuses == {"pending", "resolved", "ignored", "responded"}

\* what a request names as status: a value of the list, another one, or none
RequestedStatuses == Statuses \cup {"archived", Null}

\* PUT /api/emails/:id/status without the test of the value
PutStatusUnchecked(id, status, fails) ==
    /\ reply.op = "none"
    /\ emails' = IF fails THEN emails ELSE updateEmailStatus(emails, id, status)
    /\ reply' = [op |-> "status", id |-> id, status |-> status,
                 code |-> IF fails THEN 500 ELSE 200]
    /\ UNCHANGED <<responses, batchVars>>

\* PUT /api/emails/:id/status; fails: the store rejects the UPDATE
PutStatus(id, status, fails) ==
    LET code == IF status \notin Statuses THEN 400 ELSE IF fails THEN 500 ELSE 200
    IN  /\ reply.op = "none"
        /\ status \notin Statuses => ~fails
        /\ emails' = IF code = 200 THEN updateEmailStatus(emails, id, status) ELSE emails
        /\ reply' = [op |-> "status", id |-> id, status |-> status, code |-> code]
        /\ UNCHANGED <<responses, batchVars>>

\* one trigger fires in a behaviour and one status request arrives, at any time
StatusNext ==
    \/ \E p \in Runs :
        \/ \E msgs \in Batches : StartBatch(p, msgs) /\ \A q \in Runs : run[q].pc = "idle"
        \/ LoopStep(p)
    \/ \E id \in RequestIds, status \in RequestedStatuses, fails \in BOOLEAN :
            PutStatus(id, status, fails)

StatusSpec == Init /\ [][StatusNext]_vars

\* ------------------------------------------------ the drafts of a record
\* drafts the store can hold before a request for one more is left out
MaxDrafts == 2

\* POST /api/emails/:id/generate-response and .../regenerate-response, without
\* the text: 404, 400, or a draft more unless the model call or the store throws
RegenerateResponse(id, throws) ==
    /\ Len(responses) < MaxDrafts
    /\ ~(Found1(emails, id) /\ isOpenAIConfigured) => ~throws
    /\ ~isConfigured => throws \/ ~Found1(emails, id) \/ ~isOpenAIConfigured
    /\ responses' = IF Found1(emails, id) /\ isOpenAIConfigured /\ ~throws
                    THEN insertResponse(responses, id) ELSE responses
    /\ UNCHANGED <<emails, autoSend, aiState, run, mailLog, service>>

\* the request the send-response handler has finished
Answered(id, status) == [op |-> "send-response", id |-> id, pc |-> "done", status |-> status]

\* POST /api/emails/:id/send-response up to the end of its await of
\* gmailService.sendResponse.  responseText: the body carries one; named: it
\* carries recipientEmail and subject; configured: isGmailConfigured();
\* fails: the transport rejects
PostSendResponse(id, responseText, named, configured, fails) ==
    LET status == IF ~responseText THEN 400
                  ELSE IF ~named /\ ~Found1(emails, id) THEN 404
                  ELSE IF ~configured THEN 400
                  ELSE IF fails THEN 500
                  ELSE 200
    IN  /\ reply.op = "none" \/ (reply.op = "send-response" /\ reply.pc = "done")
        /\ ~responseText => named /\ configured /\ ~fails
        /\ (~named /\ ~Found1(emails, id)) => configured /\ ~fails
        /\ ~configured => ~fails
        /\ reply' = IF status = 200
                    THEN [op |-> "send-response", id |-> id, pc |-> "markSent", status |-> 0]
                    ELSE Answered(id, status)
        /\ UNCHANGED <<emails, responses, batchVars>>

\* await db.markResponseAsSent(id) of the send-response handler
SendResponseMarkSent(fails) ==
    /\ reply.op = "send-response" /\ reply.pc = "markSent"
    /\ responses' = IF fails THEN responses ELSE markResponseAsSent(responses, reply.id)
    /\ reply' = IF fails THEN Answered(reply.id, 500) ELSE [reply EXCEPT !.pc = "updateStatus"]
    /\ UNCHANGED <<emails, batchVars>>

\* await db.updateEmailStatus(id, 'responded') of the send-response handler
SendResponseUpdateStatus(fails) ==
    /\ reply.op = "send-response" /\ reply.pc = "updateStatus"
    /\ emails' = IF fails THEN emails ELSE updateEmailStatus(emails, reply.id, "responded")
    /\ reply' = Answered(reply.id, IF fails THEN 500 ELSE 200)
    /\ UNCHANGED <<responses, batchVars>>

\* the cron job fires once; drafts are requested and responses sent by hand
\* at any time
DraftNext ==
    \/ StartBatch("sched", <<"m1", "m2">>)
    \/ LoopStep("sched")
    \/ \E id \in RequestIds, throws \in BOOLEAN : RegenerateResponse(id, throws)
    \/ \E id \in RequestIds, responseText, named, configured, fails \in BOOLEAN :
            PostSendResponse(id, responseText, named, configured, fails)
    \/ \E fails \in BOOLEAN : SendResponseMarkSent(fails)
    \/ \E fails \in BOOLEAN : SendResponseUpdateStatus(fails)

\* the deployment with auto-dispatch switched on and the AI service initialised
DraftInit == Init /\ autoSend /\ aiState = "ready"

DraftSpec == DraftInit /\ [][DraftNext]_vars

\* -------------------------------------------------- the knowledge lookup
KnowledgeMails ==
    {[subject |-> "", body |-> "", sender |-> ""],
     [subject |-> "Password reset", body |-> "What is your response time?",
      sender |-> "jane.doe@example.com"],
     [subject |-> "Refund?", body |-> "Please cancel my plan and refund the last bill.",
      sender |-> "bob@example.com"]}

\* what callers hand to updateKnowledgeBase
KnowledgeCategories == {"products", "policies", "commonIssues", "faq"}
KnowledgeKeys == {"password_reset", "refund"}
KnowledgeValues == {"Use the reset link on the sign-in page."}

KnowledgeInit ==
    /\ aiState \in {"nokey", "uninit", "ready"}
    /\ mail \in KnowledgeMails
    /\ emails = <<>>
    /\ responses = <<>>
    /\ reply = [op |-> "none"]
    /\ knowledgeBase = BuiltInKnowledge
    /\ gmail = Mailbox
    /\ autoSend = FALSE
    /\ run = [p \in Runs |-> IdleRun]
    /\ mailLog = <<>>

\* aiService.updateKnowledgeBase(category, key, value)
UpdateKnowledgeBase(category, key, value) ==
    /\ reply.op = "none"
    /\ knowledgeBase' = updateKnowledgeBase(knowledgeBase, category, key, value)
    /\ UNCHANGED <<emails, responses, autoSend, aiState, run, mailLog, mail, reply, gmail>>

\* this.buildKnowledgeContext(subject, body), as the response prompts call it
BuildKnowledgeContext ==
    /\ reply.op = "none"
    /\ reply' = [op |-> "buildKnowledgeContext",
                 value |-> Str(buildKnowledgeContext(knowledgeBase, mail.subject, mail.body))]
    /\ UNCHANGED <<emails, responses, batchVars>>

KnowledgeNext ==
    \/ \E category \in KnowledgeCategories, key \in KnowledgeKeys, value \in KnowledgeValues :
            UpdateKnowledgeBase(category, key, value)
    \/ BuildKnowledgeContext

KnowledgeSpec == KnowledgeInit /\ [][KnowledgeNext]_vars

\* ------------------------------------------- the analysis over a wider corpus
AnalysisMails ==
    Mails \cup
    {[subject |-> "", body |-> "Thank you, but the export is broken",
      sender |-> "bob@example.com"],
     [subject |-> "", body |-> "Great product, thank you! Only the export is broken.",
      sender |-> "bob@example.com"],
     [subject |-> "", body |-> "I want to cancel my order", sender |-> "jane.doe@example.com"],
     [subject |-> "Cancel?", body |-> "I want to cancel my order",
      sender |-> "jane.doe@example.com"],
     [subject |-> "Refund", body |-> "The page shows an error. Can I get my money back?",
      sender |-> "bob@example.com"]}

AnalysisInit ==
    /\ aiState \in {"nokey", "uninit", "ready"}
    /\ mail \in AnalysisMails
    /\ \E p \in Runs :
            /\ p = "sched" => mail.sender # ""
            /\ emails = insertEmail(<<>>, "m1", FALSE, p).emails
    /\ responses = <<>>
    /\ reply = [op |-> "none"]
    /\ knowledgeBase = BuiltInKnowledge
    /\ gmail = Mailbox
    /\ autoSend = FALSE
    /\ run = [p \in Runs |-> IdleRun]
    /\ mailLog = << <<>> >>

AnalysisNext == \E answer \in AnalysisAnswers : AnalyzeEmail(answer)

AnalysisSpec == AnalysisInit /\ [][AnalysisNext]_vars

\* ------------------------------------------------- vocabulary of the claims
Rows == 1..Len(emails)

RowsWith(messageId) == {k \in Rows : emails[k].messageId = messageId}

Drafts(k) == {j \in 1..Len(responses) : responses[j].emailId = k}

HasSentDraft(k) == \E j \in Drafts(k) : responses[j].isSent

Ids(batch) == {batch[j] : j \in 1..Len(batch)}

\* what the run reports as processed
Counted(p) == IF p = "manual" THEN run[p].processedCount ELSE run[p].successCount

CreatedBy(p) == {k \in Rows : emails[k].by = p}

UniqueMessageIds ==
    \A j, k \in Rows : emails[j].messageId = emails[k].messageId => j = k

\* the positions of a run inside auto-dispatch
DispatchPcs == {"send", "markSent", "updateStatus"}

\* ---------------------------------------------------------------- claims
\* C1: ingesting a message whose external identifier is already stored creates no
\* second record and raises no error (the insert returns null and the loop moves
\* on without counting it); ingesting an identifier not yet stored appends exactly
\* one pending record carrying it; so no two records ever share an identifier.
C1_InsertStep ==
    \A p \in Runs :
        (run[p].pc = "insert" /\ run'[p] # run[p] /\ run'[p].faults = run[p].faults) =>
            IF RowsWith(run[p].batch[run[p].i]) # {}
            THEN /\ emails' = emails
                 /\ run'[p].thrown = run[p].thrown
                 /\ run'[p].errorCount = run[p].errorCount
                 /\ run'[p].processedCount = run[p].processedCount
                 /\ run'[p].successCount = run[p].successCount
                 /\ run'[p].emailId = NoId
                 /\ run'[p].i = run[p].i + 1
            ELSE /\ Len(emails') = Len(emails) + 1
                 /\ SubSeq(emails', 1, Len(emails)) = emails
                 /\ emails'[Len(emails')].messageId = run[p].batch[run[p].i]
                 /\ emails'[Len(emails')].status = "pending"
                 /\ run'[p].thrown = run[p].thrown

C3_UrgentNeverAutoSent ==
    /\ \A k \in Rows :
            emails[k].priority = "urgent" =>
                mailLog[k] = <<>> /\ ~HasSentDraft(k) /\ emails[k].status = "pending"
    /\ \A p \in Runs :
            run[p].pc \in DispatchPcs =>
                run[p].analysis # "urgent" /\ emails[run[p].emailId].priority # "urgent"

\* C3 witness: with the flag enabled, the scheduled run has finished an urgent
\* record that has its draft stored.
C3_Witness ==
    /\ autoSend
    /\ run["sched"].pc = "done"
    /\ \E k \in Rows :
            /\ emails[k].by = "sched" /\ emails[k].priority = "urgent"
            /\ Drafts(k) # {} /\ ~HasSentDraft(k)

\* C4: auto-dispatch calls the mail transport for a record only with the flag
\* enabled and a priority other than urgent; with the flag disabled no run enters
\* auto-dispatch, no mail is sent, no draft is marked sent and no status becomes
\* responded.
C4_AutoSendOnlyWhenEnabled ==
    /\ \A k \in Rows : mailLog[k] # <<>> => autoSend /\ emails[k].priority # "urgent"
    /\ ~autoSend =>
            /\ \A p \in Runs : run[p].pc \notin DispatchPcs
            /\ \A k \in Rows :
                    mailLog[k] = <<>> /\ ~HasSentDraft(k) /\ emails[k].status # "responded"

\* C4 witness: with the flag disabled, the scheduled run has finished a record of
\* priority normal whose draft is stored and unsent.
C4_Witness ==
    /\ ~autoSend
    /\ run["sched"].pc = "done"
    /\ \E k \in Rows :
            /\ emails[k].by = "sched" /\ emails[k].priority = "normal"
            /\ emails[k].summary # Null
            /\ Drafts(k) # {} /\ ~HasSentDraft(k) /\ mailLog[k] = <<>>

\* C5 (as claimed): on either trigger, with the flag enabled, a newly created
\* record analysed as priority normal, whose item has ended without the store or
\* the mail transport failing, has its drafts marked sent and status responded.
C5_NormalSentOnEitherTrigger ==
    \A k \in Rows :
        ( /\ autoSend
          /\ emails[k].summary # Null /\ emails[k].priority = "normal"
          /\ Drafts(k) # {}
          /\ run[emails[k].by].emailId # k
          /\ run[emails[k].by].faults = 0 )
        => /\ \A j \in Drafts(k) : responses[j].isSent
           /\ emails[k].status = "responded"

\* C6 (as claimed): a record with a draft marked sent has status responded, except
\* while a dispatch stands between markResponseAsSent and updateEmailStatus for it.
C6_SentImpliesResponded ==
    \A k \in Rows :
        ( /\ HasSentDraft(k)
          /\ ~\E p \in Runs : run[p].pc = "updateStatus" /\ run[p].emailId = k )
        => emails[k].status = "responded"

\* C7: the step in which the mail transport fails changes neither table (the
\* draft stays unsent, the status stays as it was) and takes the run to the next
\* message or to the end of the list; auto-dispatch calls the transport at most
\* once per record, and at the call the record's drafts are unsent.
C7_SendFailureStep ==
    \A p \in Runs :
        (run[p].pc = "send" /\ run'[p].pc \notin {"send", "markSent"}) =>
            /\ emails' = emails
            /\ responses' = responses
            /\ run'[p].i = run[p].i + 1
            /\ run'[p].pc = IF run[p].i + 1 > Len(run[p].batch) THEN "done" ELSE "insert"

C7_SendState ==
    /\ \A k \in Rows : Len(mailLog[k]) <= 1
    /\ \A p \in Runs :
            run[p].pc = "send" =>
                ~HasSentDraft(run[p].emailId) /\ emails[run[p].emailId].status = "pending"

C7_SendFailureLeavesRecord == [][C7_SendFailureStep]_vars /\ []C7_SendState

\* C7 witness: the send for the first record failed, the record is pending with
\* its draft unsent, and the run went on to store the next message.
C7_Witness ==
    /\ Len(emails) = 2
    /\ emails[1].by = "sched" /\ emails[2].by = "sched"
    /\ mailLog[1] = <<"failed">>
    /\ Drafts(1) # {} /\ ~HasSentDraft(1) /\ emails[1].status = "pending"
    /\ run["sched"].pc = "done"

\* C8 (as claimed): a manual batch in which exactly one persistence step failed
\* reports errorCount 1 and processedCount equal to the number of messages it
\* stored.
C8_OneFailureOneError ==
    (run["manual"].pc = "done" /\ run["manual"].faults = 1) =>
        /\ run["manual"].errorCount = 1
        /\ run["manual"].processedCount = Cardinality(CreatedBy("manual"))

\* C9: a run never stops inside its loop and never leaves it early: every step of
\* a run moves it strictly forward, a run inside the loop always has a step to
\* take, and a run that has ended has called insertEmail for every message of its
\* list, whatever failed on the way.
PcRank(pc) ==
    CASE pc = "idle" -> 0
      [] pc = "insert" -> 1
      [] pc = "ai" -> 2
      [] pc = "updateAnalysis" -> 3
      [] pc = "insertResponse" -> 4
      [] pc = "send" -> 5
      [] pc = "markSent" -> 6
      [] pc = "updateStatus" -> 7
      [] pc = "done" -> 8

Rank(r) == 8 * r.i + PcRank(r.pc)

C9_Step == \A p \in Runs : run'[p] # run[p] => Rank(run'[p]) > Rank(run[p])

C9_State ==
    \A p \in Runs :
        /\ run[p].i <= Len(run[p].batch) + 1
        /\ run[p].pc \notin {"idle", "done"} => ENABLED LoopStep(p)
        /\ run[p].pc = "done" => run[p].attempted = Len(run[p].batch)

C9_BatchNeverAborts == [][C9_Step]_vars /\ []C9_State

\* C9 witness: the insert of the first message was rejected, and the run still
\* stored the second message and ended.
C9_Witness ==
    /\ run["manual"].pc = "done"
    /\ run["manual"].batch = <<"m1", "m2">>
    /\ run["manual"].errorCount = 1
    /\ run["manual"].attempted = 2
    /\ \E k \in CreatedBy("manual") : emails[k].messageId = "m2"

C11_FallbacksOnEveryRecord ==
    \A p \in Runs :
        (aiState # "ready" /\ run[p].pc = "done" /\ run[p].faults = 0) =>
            /\ run[p].thrown = 0
            /\ \A k \in CreatedBy(p) : emails[k].summary # Null /\ Drafts(k) # {}

\* ------------------------------------------- vocabulary of the service claims
Priorities == {"urgent", "normal", "low"}

Sentiments == {"positive", "negative", "neutral"}

\* x is a string out of the set S
StringIn(x, S) == x.t = "string" /\ x.v \in S

\* the backend's answer to the (first) prompt of the call
Answer == reply.answers[1]

Analyzed == reply.op = "analyzeEmail"

\* C12 (as claimed): analyzeEmail never fails to its caller: whatever the state of
\* the service and whatever the backend answers, it returns an analysis object,
\* the heuristic one when the backend gave no usable answer.
C12_AnalyzeNeverFails ==
    Analyzed =>
        /\ ~reply.threw
        /\ reply.value.t = "object"
        /\ Answer.kind # "content" => reply.value = fallbackAnalysis(mail.subject, mail.body)

\* C13 (as claimed): whatever text the backend returns and whichever path produces
\* the result, the analysis analyzeEmail returns has an enumerated priority and an
\* enumerated sentiment, and so have the values the batch loops store for it.
C13_EnumeratedValues ==
    (Analyzed /\ ~reply.threw) =>
        /\ StringIn(Get(reply.value, "priority"), Priorities)
        /\ StringIn(Get(reply.value, "sentiment"), Sentiments)
        /\ StringIn(AnalysisParams(reply.value).priority, Priorities)
        /\ StringIn(AnalysisParams(reply.value).sentiment, Sentiments)

\* the text is no JSON, or is a JSON object without an enumerated priority and
\* an enumerated sentiment
ViolatesShape(text) ==
    LET parsed == JSONparse(trim(text))
    IN  \/ ~parsed.ok
        \/ /\ parsed.v.t = "object"
           /\ \/ ~StringIn(Get(parsed.v, "priority"), Priorities)
              \/ ~StringIn(Get(parsed.v, "sentiment"), Sentiments)

\* C14 (as claimed): when the text the backend returns violates the shape of an
\* analysis (no JSON, a field missing, a value outside the enumerations), the
\* analysis analyzeEmail returns is the heuristic one for that subject and body.
C14_ShapeViolationFallsBack ==
    (Analyzed /\ ~reply.threw /\ Answer.kind = "content" /\ ViolatesShape(Answer.text)) =>
        reply.value = fallbackAnalysis(mail.subject, mail.body)

Summarized == reply.op = "summarizeEmail"

\* C16 (as claimed): summarizeEmail never fails to its caller, whatever the state
\* of the service; when the backend gives no usable answer the summary is the
\* fixed template around the subject and the first 200 characters of subject and
\* body.
C16_SummarizeNeverFails ==
    Summarized =>
        /\ ~reply.threw
        /\ (Answer.kind # "content" /\ mail.subject # "") =>
                reply.value = Str("Email from customer regarding: " \o mail.subject
                                    \o ". Content preview: "
                                    \o substring(mail.subject \o " " \o mail.body, 200)
                                    \o "...")

\* a single-record request has been answered
Endpoints == {"summarize", "generate-response", "regenerate-response"}
Requested == reply.op \in Endpoints

\* the backend failed every call the request made of it
BackendDown == \A k \in 1..Len(reply.answers) : reply.answers[k] \in {NotAsked, BackendError}

\* the request stored its result
StoredResult ==
    IF reply.op = "summarize" THEN emails[reply.id].summary = reply.value.v
    ELSE \E k \in 1..Len(responses) : responses[k].emailId = reply.id

\* C15: a single-record request on a stored record reports the service as not
\* configured only when there is no API key; with a key, a backend that fails
\* (a service that failed to initialise included) gives success and a stored
\* fallback result. (Stated as the claim has it; the code violates it.)
C15_UnavailableOnlyWhenUnconfigured ==
    (Requested /\ Found1(emails, reply.id) /\ reply.fault = "none") =>
        /\ reply.status = 400 <=> aiState = "nokey"
        /\ (aiState # "nokey" /\ BackendDown) => reply.status = 200 /\ StoredResult

\* C17 (as claimed): ingestion gives a message without an external identifier a
\* synthetic one on either trigger path, so no record is stored with an absent
\* identifier and no two stored records share one.
C17_SyntheticIdentifier ==
    /\ \A k \in Rows : emails[k].messageId # Null
    /\ UniqueMessageIds

\* C18 (as claimed): urgent emails are processed first: of two messages of one
\* run whose responses are stored, one classified urgent and the other not, the
\* urgent one's response was stored first.
C18_UrgentFirst ==
    \A j, k \in Rows :
        (/\ emails[j].by = emails[k].by
         /\ emails[k].priority = "urgent" /\ emails[j].priority # "urgent"
         /\ Drafts(j) # {} /\ Drafts(k) # {}) =>
            \A dj \in Drafts(j), dk \in Drafts(k) : dk < dj

\* Scenario A: the body below under an empty subject
ScenarioA == mail.subject = "" /\ mail.body = "This is urgent, the app is broken, please help asap"

\* analyzeEmail returned the heuristic analysis: the backend rejected the call
FellBack == Analyzed /\ ~reply.threw /\ Answer.kind = "error"

ExtractedInfo(k) == Get(Get(reply.value, "extractedInfo"), k)

UrgencyKeywords ==
    LET found == ExtractedInfo("urgencyKeywords")
    IN  IF found.t = "array" THEN {found.v[j].v : j \in 1..Len(found.v)} ELSE {}

\* what Scenario A says of the heuristic analysis, but for the category
ScenarioAFields ==
    /\ Get(reply.value, "priority") = Str("urgent")
    /\ {"urgent", "broken", "asap", "help"} \subseteq UrgencyKeywords
    /\ StringIn(Get(reply.value, "sentiment"), {"neutral", "negative"})

\* C19 (as claimed): for Scenario A the heuristic analysis has priority urgent,
\* the urgency keywords urgent, broken, asap and help among those it matched,
\* sentiment neutral or negative, and category technical.
C19_ScenarioATechnical ==
    (FellBack /\ ScenarioA) => ScenarioAFields /\ ExtractedInfo("category") = Str("technical")

\* C19 (amended): for Scenario A the heuristic analysis has priority urgent, the
\* urgency keywords urgent, broken, asap and help among those it matched,
\* sentiment neutral or negative, and category complaint: 'broken' is a negative
\* word and no technical one.
C19_ScenarioAComplaint ==
    (FellBack /\ ScenarioA) => ScenarioAFields /\ ExtractedInfo("category") = Str("complaint")

C19_Witness ==
    FellBack /\ ScenarioA /\ ScenarioAFields /\ ExtractedInfo("category") = Str("complaint")

\* a request for a response was served with a response
Synthesized == reply.op \in {"generate-response", "regenerate-response"} /\ reply.status = 200

\* the sender column of the record the request named
SenderOf(id) == StoredMail(emails[id].by, mail).sender

\* text opens with a greeting of name
Greets(text, name) ==
    At(text, 0, "Hello " \o name \o ",") \/ At(text, 0, "Dear " \o name \o ",")

\* C20 (as claimed): every response the synthesizer produces, from the backend's
\* text or from the template, opens with a greeting of the name derived from the
\* sender's address ("jane.doe@example.com" gives "Jane Doe").
C20_GreetingUsesDerivedName ==
    Synthesized => Greets(reply.value.v, extractCustomerName(SenderOf(reply.id)))

\* the pipeline ran on the new record
Processed == reply.op = "process"

\* classification and summarization succeeded, and the response failed: its
\* synthesis threw, or the store failed to insert it
ResponseFailed ==
    /\ Processed
    /\ ~reply.analysis.threw /\ reply.analysis.value.t = "object"
    /\ ~reply.summary.threw
    /\ reply.failedAt \in {"generateIntelligentResponse", "insertResponse"}

\* record 1 holds the analysis and the summary the pipeline computed
HoldsAnalysis ==
    /\ emails[1].priority = AnalysisParams(reply.analysis.value).priority.v
    /\ emails[1].summary = reply.summary.value.v

\* C21 (as claimed): each stage result is persisted as soon as it is there: when
\* classification and summarization succeeded and the synthesis of the response,
\* or its insertion, failed, the record holds the analysis and the summary.
C21_PersistedAsAvailable == ResponseFailed => HoldsAnalysis

\* the record run p is working on, if it has one
Current(p, k) == run[p].emailId = k /\ emails[k].by = p

\* C22: within one batch run the messages are handled one after the other in the
\* order of the list: every write to the store and every call of the mail
\* transport is for the record of the message the run stands at, the run never
\* steps back, the records of earlier messages are left as they are, and records
\* and drafts of a run lie in the store in the order of the list.
C22_Step ==
    /\ \A p \in Runs : run'[p].i >= run[p].i
    /\ \A k \in Rows :
            (emails'[k] # emails[k] \/ mailLog'[k] # mailLog[k]) => Current(emails[k].by, k)
    /\ \A d \in 1..Len(responses) :
            responses'[d] # responses[d] =>
                Current(emails[responses[d].emailId].by, responses[d].emailId)
    /\ \A d \in (Len(responses) + 1)..Len(responses') :
            Current(emails[responses'[d].emailId].by, responses'[d].emailId)

C22_State ==
    \A p \in Runs :
        /\ run[p].emailId # NoId =>
                /\ Current(p, run[p].emailId)
                /\ emails[run[p].emailId].messageId = run[p].batch[run[p].i]
        /\ \A k \in CreatedBy(p) :
                k # run[p].emailId =>
                    \E j \in 1..(run[p].i - 1) : run[p].batch[j] = emails[k].messageId
        /\ \A j, k \in CreatedBy(p) :
                j < k =>
                    /\ \E a, b \in 1..Len(run[p].batch) :
                            /\ a < b
                            /\ run[p].batch[a] = emails[j].messageId
                            /\ run[p].batch[b] = emails[k].messageId
                    /\ \A dj \in Drafts(j), dk \in Drafts(k) : dj < dk

Scanned == toLowerCase(mail.subject \o " " \o mail.body)

Has(words) == \E w \in words : includes(Scanned, w)

\* the category of the first rule that holds; rules: a sequence of
\* [holds, category], the last of which always holds
RECURSIVE FirstRule(_)
FirstRule(rules) == IF Head(rules).holds THEN Head(rules).category ELSE FirstRule(Tail(rules))

KeywordRules ==
    << [holds |-> Has({"bill", "payment", "charge"}), category |-> "billing"],
       [holds |-> Has({"login", "password", "account"}), category |-> "account"],
       [holds |-> Has({"bug", "error", "not working"}), category |-> "technical"],
       [holds |-> Has({"refund", "cancel"}), category |-> "refund"] >>

\* C23 (as claimed): the heuristic analysis takes the category of the first rule
\* that matches, in the order billing, account, technical, refund keywords, then
\* complaint for a negative sentiment, compliment for a positive one, else general.
C23_CategoryBySentiment ==
    FellBack =>
        ExtractedInfo("category") =
            Str(FirstRule(KeywordRules \o
                << [holds |-> Get(reply.value, "sentiment") = Str("negative"),
                    category |-> "complaint"],
                   [holds |-> Get(reply.value, "sentiment") = Str("positive"),
                    category |-> "compliment"],
                   [holds |-> TRUE, category |-> "general"] >>))

\* C23 (amended): the heuristic analysis takes the category of the first rule that
\* matches, in the order billing, account, technical, refund keywords, then
\* complaint when any negative word matched, compliment when any positive word
\* matched, else general; so complaint goes with any sentiment, compliment only
\* with a positive one.
C23_CategoryFirstMatch ==
    FellBack =>
        /\ ExtractedInfo("category") =
                Str(FirstRule(KeywordRules \o
                    << [holds |-> Has({negativeKeywords[j] : j \in DOMAIN negativeKeywords}),
                        category |-> "complaint"],
                       [holds |-> Has({positiveKeywords[j] : j \in DOMAIN positiveKeywords}),
                        category |-> "compliment"],
                       [holds |-> TRUE, category |-> "general"] >>))
        /\ ExtractedInfo("category") = Str("compliment") =>
                Get(reply.value, "sentiment") = Str("positive")

\* C23 witness: a text with one positive and one negative word and no keyword of
\* the first four rules is a complaint of neutral sentiment.
C23_Witness ==
    /\ FellBack
    /\ mail.body = "Thank you, but the export is broken"
    /\ ExtractedInfo("category") = Str("complaint")
    /\ Get(reply.value, "sentiment") = Str("neutral")

\* C24 (as claimed): requestType is question exactly when the body contains a
\* question mark, otherwise refund when the category is refund, otherwise request.
C24_QuestionInBody ==
    FellBack =>
        ExtractedInfo("requestType") =
            Str(IF includes(mail.body, "?") THEN "question"
                ELSE IF ExtractedInfo("category") = Str("refund") THEN "refund"
                ELSE "request")

\* C24 (amended): requestType is question exactly when the subject or the body
\* contains a question mark, otherwise refund when the category is refund,
\* otherwise request.
C24_QuestionInText ==
    FellBack =>
        ExtractedInfo("requestType") =
            Str(IF includes(mail.subject, "?") \/ includes(mail.body, "?") THEN "question"
                ELSE IF ExtractedInfo("category") = Str("refund") THEN "refund"
                ELSE "request")

\* C24 witness: a question mark in the subject alone makes a refund request a
\* question.
C24_Witness ==
    /\ FellBack
    /\ mail.subject = "Cancel?" /\ ~includes(mail.body, "?")
    /\ ExtractedInfo("category") = Str("refund")
    /\ ExtractedInfo("requestType") = Str("question")

\* every underscore of key turned into a blank
RECURSIVE Spaced(_)
Spaced(key) == IF includes(key, "_") THEN Spaced(replace(key, "_", " ")) ELSE key

\* the entries of all three categories
KnowledgeEntries ==
    {knowledgeBase[c][j] : c \in {"products"}, j \in 1..Len(knowledgeBase.products)}
    \cup {knowledgeBase[c][j] : c \in {"policies"}, j \in 1..Len(knowledgeBase.policies)}
    \cup {knowledgeBase[c][j] : c \in {"commonIssues"},
                                j \in 1..Len(knowledgeBase.commonIssues)}

\* the key of entry e, or the key with blanks for underscores, occurs in the
\* lower-cased subject and body
Mentioned(e) == includes(Scanned, e.key) \/ includes(Scanned, Spaced(e.key))

NoKnowledge == "No specific knowledge base information found for this query."

\* C25 (as claimed): the knowledge context holds the snippet of every entry, of any
\* of the three categories, built in or added, whose key or whose key with blanks
\* for underscores occurs in the lower-cased subject and body, and it is the
\* no-knowledge marker exactly when no entry matches.
C25_KnowledgeContext ==
    reply.op = "buildKnowledgeContext" =>
        /\ \A e \in KnowledgeEntries : Mentioned(e) => includes(reply.value.v, e.info)
        /\ reply.value.v = NoKnowledge <=> ~\E e \in KnowledgeEntries : Mentioned(e)

\* ---------------------------------------------------------------------- C26
\* a step of a batch run (every one moves the run; a status request moves none)
BatchStep == run' # run

\* the step creates rows only with status pending, a batch step changes a
\* stored row's status to nothing but responded, and a status request that
\* names a value outside the list is answered 400 and changes no row
C26_Step ==
    /\ \A k \in 1..Len(emails') : k > Len(emails) => emails'[k].status = "pending"
    /\ BatchStep =>
        \A k \in Rows : emails'[k].status \in {emails[k].status, "responded"}
    /\ (~BatchStep /\ reply'.op = "status" /\ reply'.status \notin Statuses) =>
        emails' = emails /\ reply'.code = 400

\* C26: in every reachable state the status of every record is one of
\* pending, responded, ignored, resolved: records are created pending, batch
\* runs only set responded, and a status request with any other value is
\* rejected and leaves the record unchanged
C26_StatusInList ==
    /\ [][C26_Step]_vars
    /\ [](\A k \in Rows : emails[k].status \in Statuses)

\* a request with a value outside the list was rejected for a record that a
\* batch run then answered, next to a record still pending
C26_Witness ==
    /\ reply.op = "status" /\ reply.status = "archived" /\ reply.code = 400
    /\ reply.id \in Rows /\ emails[reply.id].status = "responded"
    /\ \E k \in Rows : emails[k].status = "pending"

\* ---------------------------------------------------------------------- C27
\* the positions of a run between its insert and the end of the item
StagePcs == {"ai", "updateAnalysis", "insertResponse"} \cup DispatchPcs

\* the identifier of the record a draft belongs to
DraftOf(j) == emails[responses[j].emailId].messageId

\* C27: however concurrent batch runs that received the same message
\* interleave, a run is in the model stages, the draft insertion or the
\* dispatch of a message only if its own insert created the record of that
\* message, so each identifier has at most one draft and at most one
\* dispatch from ingestion
C27_OneRunPerMessage ==
    /\ \A p \in Runs :
        run[p].pc \in StagePcs =>
            /\ run[p].emailId \in CreatedBy(p)
            /\ emails[run[p].emailId].messageId = run[p].batch[run[p].i]
    /\ \A p, q \in Runs :
        (p # q /\ run[p].pc \in StagePcs /\ run[q].pc \in StagePcs) =>
            run[p].batch[run[p].i] # run[q].batch[run[q].i]
    /\ \A i, j \in 1..Len(responses) : DraftOf(i) = DraftOf(j) => i = j
    /\ \A j, k \in Rows :
        emails[j].messageId = emails[k].messageId =>
            j = k /\ Len(mailLog[k]) <= 1

\* C27 witness: both runs received m1; the scheduled run created its record,
\* drafted and is dispatching, while the manual run has met the duplicate
\* and ended without an error
C27_Witness ==
    /\ run["sched"].batch = <<"m1">> /\ run["manual"].batch = <<"m1">>
    /\ run["sched"].pc = "markSent" /\ run["manual"].pc = "done"
    /\ run["manual"].attempted = 1 /\ run["manual"].thrown = 0
    /\ Len(responses) = 1 /\ DraftOf(1) = "m1"
    /\ Len(emails) = 1 /\ mailLog[1] = <<"sent">>

\* ---------------------------------------------------------------------- C28
\* run p's insert is answered null: the identifier is stored already and
\* the store did not fail
AlreadyExists(p) ==
    /\ run[p].pc = "insert"
    /\ run'[p] # run[p]
    /\ run'[p].faults = run[p].faults
    /\ RowsWith(run[p].batch[run[p].i]) # {}

\* C28: an item whose insert finds the identifier stored changes nothing in
\* the store (the record's priority, summary and status and its drafts stay
\* as they were), and the run goes on to its next item without a model call
\* or a dispatch for it
C28_Step ==
    \A p \in Runs :
        AlreadyExists(p) =>
            /\ emails' = emails
            /\ responses' = responses
            /\ mailLog' = mailLog
            /\ run'[p].pc \notin StagePcs
            /\ run'[p].emailId = NoId
            /\ run'[p].i = run[p].i + 1

C28_DuplicateChangesNothing == [][C28_Step]_vars

\* C28 witness: the scheduled run has stored, analysed, answered and
\* dispatched m1; the manual run, which stored m2 first, met m1 as a
\* duplicate and ended, and the record of m1 is as the scheduled run left it
C28_Witness ==
    /\ run["sched"].pc = "done" /\ run["sched"].batch = <<"m1">>
    /\ run["manual"].pc = "done" /\ run["manual"].batch = <<"m2", "m1">>
    /\ run["manual"].thrown = 0 /\ run["manual"].faults = 0
    /\ Len(emails) = 2 /\ emails[1].messageId = "m1" /\ emails[2].by = "manual"
    /\ emails[1].status = "responded" /\ emails[1].priority = "low"
    /\ Len(mailLog[1]) = 1
    /\ \A j \in Drafts(1) : responses[j].isSent
    /\ Cardinality(Drafts(1)) = 1

\* ---------------------------------------------------------------------- C29
\* the step is a successful markResponseAsSent(id): of the send-response
\* handler, or of the auto-dispatch of the scheduled run
MarksSent(id) ==
    \/ /\ reply.op = "send-response" /\ reply.pc = "markSent" /\ reply.id = id
       /\ reply'.pc = "updateStatus"
    \/ /\ run["sched"].pc = "markSent" /\ run["sched"].emailId = id
       /\ run'["sched"].pc = "updateStatus"

\* C29: marking a record's response as sent, by auto-dispatch or by a manual
\* send-response, leaves no draft of that record unsent, however many drafts
\* regeneration has added, and touches the drafts of no other record
C29_Step ==
    \A id \in RequestIds :
        MarksSent(id) =>
            /\ Len(responses') = Len(responses)
            /\ \A j \in 1..Len(responses) :
                IF responses[j].emailId = id
                THEN responses'[j] = [responses[j] EXCEPT !.isSent = TRUE]
                ELSE responses'[j] = responses[j]

PastFetch(p) == run[p].pc \notin {"idle", "fetch"}

\* run p has gone past message m of its list and no record carries m: the
\* insert of m was rejected
IngestionFailed(p, m) ==
    /\ PastFetch(p)
    /\ \E k \in 1..Len(run[p].batch) :
        run[p].batch[k] = m /\ (k < run[p].i \/ run[p].pc = "done")
    /\ RowsWith(m) = {}

\* every message of a returned list had its markAsRead call before the loop
\* of the handler began, and a failed markAsRead left the message in the list
AttemptedBeforeIngestion ==
    \A p \in Runs :
        /\ gmail.call[p].failed \subseteq Ids(gmail.call[p].emails)
        /\ PastFetch(p) =>
            /\ run[p].batch = gmail.call[p].emails
            /\ Ids(run[p].batch) \subseteq gmail.call[p].tried

\* a fetch lists unread messages only, and no step makes a message unread
ListsUnread ==
    /\ gmail'.unread \subseteq gmail.unread
    /\ \A q \in Runs :
        (run[q].pc = "idle" /\ run'[q].pc = "fetch") =>
            Ids(gmail'.call[q].messages) \subseteq gmail.unread

\* C30 (as claimed): mark-as-read is attempted for every fetched message before
\* the ingestion of any message of the cycle begins and its failure removes
\* no message from the list; so a message whose ingestion then fails is
\* marked read already and no later fetch returns it
C30_MarkedReadBeforeIngestion ==
    /\ [][ListsUnread]_vars
    /\ [](AttemptedBeforeIngestion
          /\ \A p \in Runs, m \in MsgIds : IngestionFailed(p, m) => m \notin gmail.unread)

\* C30 (amended): ... so a message whose ingestion then fails is marked read
\* already, and no later fetch returns it, if its mark-as-read did not fail
C30_MarkedReadUnlessMarkFailed ==
    /\ [][ListsUnread]_vars
    /\ [](AttemptedBeforeIngestion
          /\ \A p \in Runs, m \in MsgIds :
                (IngestionFailed(p, m) /\ m \notin gmail.call[p].failed)
                    => m \notin gmail.unread)

\* C30 witness: the scheduled cycle fetched m1 alone and marked it read, the
\* insert of m1 was rejected; the manual cycle, which fetched after that mark,
\* got m2 only and stored it, with m2 left unread by a failed mark
C30_Witness ==
    /\ run["sched"].pc = "done" /\ run["sched"].batch = <<"m1">>
    /\ IngestionFailed("sched", "m1")
    /\ gmail.call["sched"].tried = {"m1"} /\ gmail.call["sched"].failed = {}
    /\ run["manual"].pc = "done" /\ run["manual"].batch = <<"m2">>
    /\ gmail.call["manual"].failed = {"m2"}
    /\ gmail.unread = {"m2"}
    /\ Len(emails) = 1 /\ emails[1].messageId = "m2"

====
